---- MODULE Spec2Model ----
(***************************************************************************)
(* A model of xui_tui_app.py: the XUIAPI client (login, get_inbounds,      *)
(* get_inbound_details, update_inbound, add_client_to_inbound), the two    *)
(* batch handlers (handle_update_client, handle_add_client) and main().    *)
(*                                                                         *)
(* The panel is the environment: it answers every HTTP request with one of *)
(* the response kinds of RespKinds, lists the inbounds it stores, and      *)
(* stores what a successful update submits.                                *)
(*                                                                         *)
(* Python values.  A dict with fixed keys (an inbound, a request) is a     *)
(* record; a dict read from JSON (settings, a client) is the sequence of   *)
(* its <<key, value>> pairs in insertion order; a JSON text is the         *)
(* sequence of its tokens.  The settings field of an inbound is tagged:    *)
(* [t |-> "str", v |-> tokens] or [t |-> "dict", v |-> pairs].             *)
(***************************************************************************)
EXTENDS Integers, Sequences, FiniteSets, TLC

\* Longest list of indices typed at the selection prompt.
MaxSel == 2

--------------------------------------------------------------------------
(* Sequences *)

RECURSIVE Concat(_)
Concat(ss) == IF ss = <<>> THEN <<>> ELSE Head(ss) \o Concat(Tail(ss))

--------------------------------------------------------------------------
(* Python dicts read from JSON: sequences of <<key, value>> pairs *)

HasKey(d, k) == \E n \in 1..Len(d) : d[n][1] = k

KeyIndex(d, k) == CHOOSE n \in 1..Len(d) : d[n][1] = k

\* d.get(k, default)
DictGet(d, k, default) == IF HasKey(d, k) THEN d[KeyIndex(d, k)][2] ELSE default

\* d[k] = v : replaces the value in place, or appends a new key at the end
DictSet(d, k, v) ==
    IF HasKey(d, k) THEN [d EXCEPT ![KeyIndex(d, k)] = <<k, v>>]
    ELSE Append(d, <<k, v>>)

\* The value of a key that a dict lacks (Python's None), as client.get gives it.
NoneAtom == "<None>"

--------------------------------------------------------------------------
(* json.dumps / json.loads on settings documents.                          *)
(* A JSON text is its token sequence: "{" "}" "[" "]" and scalar tokens    *)
(* (a number is the token of its decimal text).                            *)

Brackets == {"{", "}", "[", "]"}

DumpsClient(c) ==
    <<"{">> \o Concat([n \in 1..Len(c) |-> <<c[n][1], c[n][2]>>]) \o <<"}">>

DumpsClients(cs) ==
    <<"[">> \o Concat([n \in 1..Len(cs) |-> DumpsClient(cs[n])]) \o <<"]">>

\* json.dumps(settings): the value of "clients" is a list of client dicts,
\* every other value is a scalar.
JsonDumps(d) ==
    <<"{">>
    \o Concat([n \in 1..Len(d) |->
                 <<d[n][1]>> \o (IF d[n][1] = "clients" THEN DumpsClients(d[n][2])
                                 ELSE <<d[n][2]>>)])
    \o <<"}">>

ParseFail == [ok |-> FALSE, val |-> <<>>, next |-> 0]

\* The members "key scalar" of a client object from position i up to its "}".
RECURSIVE ParseClientMembers(_, _, _)
ParseClientMembers(toks, i, acc) ==
    IF i > Len(toks) THEN ParseFail
    ELSE IF toks[i] = "}" THEN [ok |-> TRUE, val |-> acc, next |-> i + 1]
    ELSE IF toks[i] \in Brackets \/ i + 1 > Len(toks) \/ toks[i + 1] \in Brackets
         THEN ParseFail
    ELSE ParseClientMembers(toks, i + 2, DictSet(acc, toks[i], toks[i + 1]))

\* The elements of the clients array from position i up to its "]".
RECURSIVE ParseClientList(_, _, _)
ParseClientList(toks, i, acc) ==
    IF i > Len(toks) THEN ParseFail
    ELSE IF toks[i] = "]" THEN [ok |-> TRUE, val |-> acc, next |-> i + 1]
    ELSE IF toks[i] # "{" THEN ParseFail
    ELSE LET c == ParseClientMembers(toks, i + 1, <<>>)
         IN  IF c.ok THEN ParseClientList(toks, c.next, Append(acc, c.val))
             ELSE ParseFail

\* The members of the settings object from position i up to its "}".
RECURSIVE ParseSettingsMembers(_, _, _)
ParseSettingsMembers(toks, i, acc) ==
    IF i > Len(toks) THEN ParseFail
    ELSE IF toks[i] = "}" THEN [ok |-> TRUE, val |-> acc, next |-> i + 1]
    ELSE IF toks[i] \in Brackets \/ i + 1 > Len(toks) THEN ParseFail
    ELSE IF toks[i + 1] = "["
         THEN LET cs == ParseClientList(toks, i + 2, <<>>)
              IN  IF cs.ok
                  THEN ParseSettingsMembers(toks, cs.next, DictSet(acc, toks[i], cs.val))
                  ELSE ParseFail
    ELSE IF toks[i + 1] \in Brackets THEN ParseFail
    ELSE ParseSettingsMembers(toks, i + 2, DictSet(acc, toks[i], toks[i + 1]))

\* json.loads(text): [ok |-> FALSE] stands for raising JSONDecodeError.
JsonLoads(toks) ==
    IF Len(toks) = 0 \/ toks[1] # "{" THEN [ok |-> FALSE, val |-> <<>>]
    ELSE LET r == ParseSettingsMembers(toks, 2, <<>>)
         IN  IF r.ok /\ r.next = Len(toks) + 1 THEN [ok |-> TRUE, val |-> r.val]
             ELSE [ok |-> FALSE, val |-> <<>>]

Str(toks) == [t |-> "str", v |-> toks]
Dict(pairs) == [t |-> "dict", v |-> pairs]

--------------------------------------------------------------------------
(* The inbounds the panel may hold when the program starts *)

SupportedProtocols == {"vless", "vmess", "trojan"}

\* str.lower() on the protocol names the panel reports.
Lower(s) ==
    CASE s = "VMess"       -> "vmess"
      [] s = "Shadowsocks" -> "shadowsocks"
      [] OTHER             -> s

Inbound(id, remark, protocol, port, doc) ==
    [id |-> id, remark |-> remark, protocol |-> protocol, port |-> port,
     settings |-> Str(doc)]

TrojanSettings ==
    JsonDumps(<< <<"clients", << << <<"id", "u1">>, <<"email", "a@x.com">> >> >> >> >>)

\* The second client's id is the first client's email.
VMessSettings ==
    JsonDumps(<< <<"clients",
                   << << <<"id", "u1">>, <<"email", "a@x.com">>, <<"alterId", "0">> >>,
                      << <<"id", "a@x.com">>, <<"email", "b@x.com">> >> >> >> >>)

VlessSettings ==
    JsonDumps(<< <<"clients", << << <<"id", "u2">>, <<"email", "b@x.com">>,
                                    <<"flow", "">> >> >> >>,
                 <<"decryption", "none">> >>)

ShadowsocksSettings ==
    JsonDumps(<< <<"method", "aes-256-gcm">>,
                 <<"clients", << << <<"email", "a@x.com">>, <<"password", "p">> >> >> >> >>)

\* A settings document without a clients key.
NoClientsSettings == JsonDumps(<< <<"decryption", "none">> >>)

\* A settings text that is no JSON.
BrokenSettings == <<"{", "clients", "[">>

\* A vmess and a trojan inbound that do not know a@x.com yet.  In the vmess
\* one the id of the second client is the email of the third.
VMessOtherSettings ==
    JsonDumps(<< <<"clients", << << <<"id", "x1">>, <<"email", "b@x.com">> >>,
                                 << <<"id", "u1">>, <<"email", "c@x.com">> >>,
                                 << <<"id", "x3">>, <<"email", "u1">> >> >> >> >>)

TrojanOtherSettings ==
    JsonDumps(<< <<"clients", << << <<"password", "p">>, <<"email", "b@x.com">> >> >> >> >>)

InitPanels ==
    { << Inbound(1, "A", "trojan", 443, TrojanSettings),
         Inbound(2, "B", "Shadowsocks", 8388, ShadowsocksSettings) >>,
      << Inbound(1, "A", "VMess", 443, VMessSettings),
         Inbound(2, "B", "vless", 8443, VlessSettings) >>,
      << Inbound(1, "A", "vless", 443, NoClientsSettings),
         Inbound(2, "B", "trojan", 8443, BrokenSettings) >>,
      << Inbound(1, "A", "VMess", 443, VMessOtherSettings),
         Inbound(2, "B", "trojan", 8443, TrojanOtherSettings) >> }

\* What the user may type at the prompts; "" is an empty answer.
Identifiers == {"", "u1", "a@x.com", "nobody"}
Emails == {"", "a@x.com"}
Secrets == {"", "s2"}

\* What the first and the second uuid.uuid4() call of an add return: two
\* fresh values, which no prompt answer and no stored client equals.
FirstUuids == {"g1"}
SecondUuids == {"g2"}

--------------------------------------------------------------------------
(* The panel's answers *)

\* How one HTTP exchange may end.
RespKinds == {"ok", "ok_no_obj", "api_fail", "no_success", "http_error",
              "conn_error", "timeout", "empty_body", "bad_json"}

LIST_ENDPOINT == "panel/api/inbounds/list"
UPDATE_ENDPOINT == "panel/api/inbounds/update"
LOGIN_ENDPOINT == "login"

FORM == "application/x-www-form-urlencoded"
JSON == "application/json"

\* The JSON body of the panel's answer of kind k to a request to endpoint,
\* for the kinds that carry a JSON object.
Body(k, endpoint, pnl) ==
    [hasSuccess |-> k \in {"ok", "ok_no_obj", "api_fail"},
     success    |-> k \in {"ok", "ok_no_obj"},
     obj        |-> IF k = "ok" /\ endpoint = LIST_ENDPOINT THEN pnl ELSE <<>>]

\* The panel after it answered kind k to the requests of sent: an update it
\* answers with success replaces the stored inbound of that id.
RECURSIVE PanelAfter(_, _, _)
PanelAfter(pnl, sent, k) ==
    IF sent = <<>> THEN pnl
    ELSE LET r == Head(sent)
             stored ==
                 IF r.method = "POST" /\ r.endpoint = UPDATE_ENDPOINT
                    /\ k \in {"ok", "ok_no_obj"}
                 THEN [n \in 1..Len(pnl) |->
                         IF pnl[n].id = r.body.id THEN r.body ELSE pnl[n]]
                 ELSE pnl
         IN  PanelAfter(stored, Tail(sent), k)

\* The kinds of answer to the second request of a call that sent the
\* requests of sent: the panel answers only what it is sent.
SecondAnswers(sent) == IF Len(sent) >= 2 THEN RespKinds ELSE {"ok"}

--------------------------------------------------------------------------
(* XUIAPI *)
(* An operator that needs the value of a call more than once takes it as   *)
(* a parameter of a second operator, named ...With or ...After.            *)

\* Python's None as an argument or a field.
None == [none |-> TRUE]

\* _request returning None.
NoneResp == [isNone |-> TRUE, hasSuccess |-> FALSE, success |-> FALSE, obj |-> <<>>]

\* What _request returns once the exchange is over and res_json is the body.
RequestReturn(method, k, res_json) ==
    IF method \notin {"POST", "GET"} THEN NoneResp
    ELSE IF k \in {"http_error", "conn_error", "timeout"} THEN NoneResp
    ELSE IF k \in {"empty_body", "bad_json"} THEN NoneResp
    ELSE IF ~(res_json.hasSuccess /\ res_json.success) THEN NoneResp
    ELSE [isNone |-> FALSE, hasSuccess |-> res_json.hasSuccess,
          success |-> res_json.success, obj |-> res_json.obj]

\* The requests _request sends.
RequestSent(method, endpoint, json_data, data, ctype) ==
    IF method = "POST"
    THEN << [method |-> method, endpoint |-> endpoint,
             content_type |-> IF json_data # None THEN JSON ELSE FORM,
             body |-> IF json_data # None THEN json_data ELSE data] >>
    ELSE IF method = "GET"
    THEN << [method |-> method, endpoint |-> endpoint, content_type |-> ctype,
             body |-> None] >>
    ELSE <<>>

\* The session's Content-Type header while the exchange is under way: a POST
\* sets it for its payload, a GET and an unsupported method leave it.
HeaderDuring(method, json_data, ctype) ==
    IF method = "POST" THEN (IF json_data # None THEN JSON ELSE FORM) ELSE ctype

\* The ways out of _request: its return statement and its except clauses.
ExitPaths == {"return", "HTTPError", "ConnectionError", "Timeout",
              "RequestException", "JSONDecodeError", "Exception"}

\* The way out for an exchange of kind k.  A body that is not JSON makes
\* response.json() raise an error that is a json.JSONDecodeError and, with
\* newer versions of requests, a RequestException as well: the clause that
\* catches it depends on the version, and both clauses do the same.
ExitPath(method, k) ==
    IF method \notin {"POST", "GET"} THEN "Exception"
    ELSE IF k = "http_error" THEN "HTTPError"
    ELSE IF k = "conn_error" THEN "ConnectionError"
    ELSE IF k = "timeout" THEN "Timeout"
    ELSE IF k \in {"api_fail", "no_success"} THEN "RequestException"
    ELSE IF k \in {"empty_body", "bad_json"} THEN "JSONDecodeError"
    ELSE "return"

\* The paths on which the line after the exchange, which puts
\* original_content_type back, has run: those where the exchange gave a
\* response.
ReachesRestore(path) ==
    path \in {"return", "HTTPError", "RequestException", "JSONDecodeError"}

\* The except clauses that put original_content_type back.
RestoringClauses == {"HTTPError", "ConnectionError", "Timeout", "RequestException",
                     "JSONDecodeError", "Exception"}

\* _request restoring the header on every path but a timeout.
HeaderAfterButTimeout(path, during, original_content_type) ==
    IF path = "Timeout" THEN during ELSE original_content_type

\* The header when _request is over.
HeaderAfter(path, during, original_content_type) ==
    IF ReachesRestore(path) \/ path \in RestoringClauses
    THEN original_content_type
    ELSE during

\* _request sending its request again after a timeout.
RequestSentRetrying(method, endpoint, json_data, data, ctype, k) ==
    IF k = "timeout"
    THEN RequestSent(method, endpoint, json_data, data, ctype)
         \o RequestSent(method, endpoint, json_data, data, ctype)
    ELSE RequestSent(method, endpoint, json_data, data, ctype)

\* The exchanges of one call of _request whatever the kind k of the answer:
\* one, and none for an unsupported method; no path of it sends again.
RequestSentFor(method, endpoint, json_data, data, ctype, k) ==
    RequestSent(method, endpoint, json_data, data, ctype)

\* _request(method, endpoint, json_data, data) when the panel answers kind k
\* and the session's Content-Type header is ctype: the value returned, the
\* HTTP requests sent and the header afterwards.
Request(method, endpoint, json_data, data, k, pnl, ctype) ==
    [ret   |-> RequestReturn(method, k, Body(k, endpoint, pnl)),
     sent  |-> RequestSentFor(method, endpoint, json_data, data, ctype, k),
     ctype |-> HeaderAfter(ExitPath(method, k),
                           HeaderDuring(method, json_data, ctype), ctype)]

\* `response and response.get('success')`
Succeeded(response) == ~response.isNone /\ response.hasSuccess /\ response.success

Credentials == [username |-> "admin", password |-> "secret"]

\* login() setting the flag before it looks at the response.
LoginWithFlagFirst(r) ==
    [ret |-> Succeeded(r.ret), login_status |-> TRUE, sent |-> r.sent,
     ctype |-> r.ctype]

LoginWith(r) ==
    IF Succeeded(r.ret)
    THEN [ret |-> TRUE, login_status |-> TRUE, sent |-> r.sent, ctype |-> r.ctype]
    ELSE [ret |-> FALSE, login_status |-> FALSE, sent |-> r.sent, ctype |-> r.ctype]

\* login(): the value returned, the flag afterwards, the requests sent.
Login(k, pnl, ctype) ==
    LoginWith(Request("POST", LOGIN_ENDPOINT, None, Credentials, k, pnl, ctype))

\* get_inbounds() without its login_status test.
GetInboundsNoCheck(logged_in, k, pnl, ctype) ==
    Request("GET", LIST_ENDPOINT, None, None, k, pnl, ctype)

\* get_inbounds()
GetInbounds(logged_in, k, pnl, ctype) ==
    IF ~logged_in THEN [ret |-> NoneResp, sent |-> <<>>, ctype |-> ctype]
    ELSE Request("GET", LIST_ENDPOINT, None, None, k, pnl, ctype)

\* `inbounds_res and inbounds_res.get('obj')`
Listed(inbounds_res) == Succeeded(inbounds_res) /\ inbounds_res.obj # <<>>

\* The positions in obj of the inbounds with the id.
WithId(obj, inbound_id) == {n \in 1..Len(obj) : obj[n].id = inbound_id}

Least(hits) == CHOOSE n \in hits : \A m \in hits : n <= m

\* The first inbound of obj with the id, as the for loop of
\* get_inbound_details returns it.
FirstWithId(obj, inbound_id) ==
    IF WithId(obj, inbound_id) = {} THEN [found |-> FALSE, inbound |-> None]
    ELSE [found |-> TRUE, inbound |-> obj[Least(WithId(obj, inbound_id))]]

DetailsWith(inbounds_list_res, inbound_id) ==
    IF Listed(inbounds_list_res.ret)
    THEN [found   |-> FirstWithId(inbounds_list_res.ret.obj, inbound_id).found,
          inbound |-> FirstWithId(inbounds_list_res.ret.obj, inbound_id).inbound,
          sent |-> inbounds_list_res.sent, ctype |-> inbounds_list_res.ctype]
    ELSE [found |-> FALSE, inbound |-> None,
          sent |-> inbounds_list_res.sent, ctype |-> inbounds_list_res.ctype]

\* get_inbound_details(inbound_id): found is FALSE where it returns None.
GetInboundDetails(logged_in, inbound_id, k, pnl, ctype) ==
    IF ~logged_in
    THEN [found |-> FALSE, inbound |-> None, sent |-> <<>>, ctype |-> ctype]
    ELSE DetailsWith(GetInbounds(logged_in, k, pnl, ctype), inbound_id)

\* The payload update_inbound builds from inbound_config: a copy whose
\* settings, when a dict, is replaced by its JSON text.
UpdatePayload(inbound_config) ==
    IF "settings" \in DOMAIN inbound_config /\ inbound_config.settings.t = "dict"
    THEN [inbound_config EXCEPT !.settings = Str(JsonDumps(inbound_config.settings.v))]
    ELSE inbound_config

UpdateWith(r, inbound_config) ==
    [ret |-> r.ret, sent |-> r.sent, ctype |-> r.ctype, config |-> inbound_config]

\* update_inbound stringifying the settings of the caller's object itself,
\* without the copy.
UpdateInboundInPlace(logged_in, inbound_config, k, pnl, ctype) ==
    IF ~logged_in
    THEN [ret |-> NoneResp, sent |-> <<>>, ctype |-> ctype, config |-> inbound_config]
    ELSE UpdateWith(Request("POST", UPDATE_ENDPOINT, UpdatePayload(inbound_config),
                            None, k, pnl, ctype),
                    UpdatePayload(inbound_config))

\* update_inbound(inbound_config): the value returned, the requests sent and
\* the caller's inbound_config object after the call.
UpdateInbound(logged_in, inbound_config, k, pnl, ctype) ==
    IF ~logged_in
    THEN [ret |-> NoneResp, sent |-> <<>>, ctype |-> ctype, config |-> inbound_config]
    ELSE UpdateWith(Request("POST", UPDATE_ENDPOINT, UpdatePayload(inbound_config),
                            None, k, pnl, ctype),
                    inbound_config)

\* The client record add_client_to_inbound builds for a protocol.
NewClient(protocol, new_client_uuid, client_email, generated_password) ==
    IF Lower(protocol) = "vless"
    THEN << <<"id", new_client_uuid>>, <<"email", client_email>>, <<"flow", "">>,
            <<"level", "0">>, <<"password", generated_password>> >>
    ELSE IF Lower(protocol) = "vmess"
    THEN << <<"id", generated_password>>, <<"email", client_email>>,
            <<"alterId", "0">>, <<"level", "0">> >>
    ELSE IF Lower(protocol) = "trojan"
    THEN << <<"password", generated_password>>, <<"email", client_email>>,
            <<"level", "0">> >>
    ELSE <<>>

\* The existence test comparing the id of the clients, not their email.
EmailExistsById(clients, client_email) ==
    \E n \in 1..Len(clients) : DictGet(clients[n], "id", NoneAtom) = client_email

\* add_client_to_inbound without its existence test.
EmailExistsNever(clients, client_email) == FALSE

\* The existence test of add_client_to_inbound for a client with this email.
EmailExists(clients, client_email) ==
    \E n \in 1..Len(clients) : DictGet(clients[n], "email", NoneAtom) = client_email

\* The inbound add_client_to_inbound hands to update_inbound: the fetched
\* inbound with the new client appended to the clients of its parsed settings.
AddSubmission(inbound_details, settings, new_client) ==
    [inbound_details EXCEPT
       !.settings = Dict(DictSet(settings, "clients",
                                 Append(DictGet(settings, "clients", <<>>),
                                        new_client)))]

\* `client_password if client_password else str(uuid.uuid4())`
GeneratedPassword(client_password, u2) ==
    IF client_password # "" THEN client_password ELSE u2

\* The end of add_client_to_inbound: r is what update_inbound gave.
AddAfterUpdate(d, r) ==
    [ret |-> IF Succeeded(r.ret) THEN "True" ELSE "False",
     sent |-> d.sent \o r.sent, ctype |-> r.ctype]

\* add_client_to_inbound once the settings are parsed.
AddAfterParse(logged_in, d, parsed, client_email, client_password, k2, u1, u2, pnl) ==
    IF ~parsed.ok THEN [ret |-> "raise", sent |-> d.sent, ctype |-> d.ctype]
    ELSE IF EmailExists(DictGet(parsed.val, "clients", <<>>), client_email)
    THEN [ret |-> "False", sent |-> d.sent, ctype |-> d.ctype]
    ELSE AddAfterUpdate(d,
           UpdateInbound(logged_in,
               AddSubmission(d.inbound, parsed.val,
                   NewClient(d.inbound.protocol, u1, client_email,
                             GeneratedPassword(client_password, u2))),
               k2, pnl, d.ctype))

\* add_client_to_inbound once get_inbound_details gave d.
AddAfterFetch(logged_in, d, client_email, client_password, k2, u1, u2, pnl) ==
    IF ~d.found THEN [ret |-> "False", sent |-> d.sent, ctype |-> d.ctype]
    ELSE IF Lower(d.inbound.protocol) \notin SupportedProtocols
    THEN [ret |-> "False", sent |-> d.sent, ctype |-> d.ctype]
    ELSE AddAfterParse(logged_in, d, JsonLoads(d.inbound.settings.v), client_email,
                       client_password, k2, u1, u2, pnl)

\* add_client_to_inbound(inbound_id, client_email, client_password): ret is
\* "True", "False" or "raise" (json.loads raised); u1 and u2 are the values of
\* the two uuid4() calls.
AddClientToInbound(logged_in, inbound_id, client_email, client_password, k1, k2, u1, u2, pnl, ctype) ==
    IF ~logged_in THEN [ret |-> "False", sent |-> <<>>, ctype |-> ctype]
    ELSE AddAfterFetch(logged_in,
                       GetInboundDetails(logged_in, inbound_id, k1, pnl, ctype),
                       client_email, client_password, k2, u1, u2, pnl)

--------------------------------------------------------------------------
(* handle_update_client: the body of its loop, for one inbound *)

\* The test of the scan for the client to update.
Matches(client, client_identifier) ==
    \/ DictGet(client, "id", NoneAtom) = client_identifier
    \/ (DictGet(client, "email", NoneAtom) = client_identifier
        /\ client_identifier # "")

MatchSet(clients, client_identifier) ==
    {n \in 1..Len(clients) : Matches(clients[n], client_identifier)}

\* The scan going on after a match: it stops at the last client that matches.
LastMatch(clients, client_identifier) ==
    IF MatchSet(clients, client_identifier) = {} THEN 0
    ELSE CHOOSE n \in MatchSet(clients, client_identifier) :
           \A m \in MatchSet(clients, client_identifier) : m <= n

\* The index of the client the scan stops at, 0 when it finds none.
FirstMatch(clients, client_identifier) ==
    IF MatchSet(clients, client_identifier) = {} THEN 0
    ELSE Least(MatchSet(clients, client_identifier))

\* The password branch writing the new secret to the id for every protocol.
WithSecretAlwaysId(client, protocol, new_password) ==
    IF new_password = "" THEN client
    ELSE DictSet(client, "id", new_password)

\* The matched client after the password branch.
WithSecret(client, protocol, new_password) ==
    IF new_password = "" THEN client
    ELSE IF Lower(protocol) = "vless" \/ Lower(protocol) = "trojan"
    THEN DictSet(client, "password", new_password)
    ELSE IF Lower(protocol) = "vmess"
    THEN DictSet(client, "id", new_password)
    ELSE client

MSG_FETCH == "Could not fetch inbound details."
MSG_PROTOCOL == "Inbound protocol does not support client management."
MSG_JSON == "JSONDecodeError"
MSG_NOT_FOUND == "Client not found. Not updated."
MSG_PASSWORD == "Client password updated"
MSG_VMESS_ID == "VMess client ID (password) updated"
MSG_KEPT == "Client details updated (password not changed)."
MSG_NO_RESPONSE == "'NoneType' object has no attribute 'get'"

UpdatedMessage(protocol, new_password) ==
    IF new_password = "" THEN MSG_KEPT
    ELSE IF Lower(protocol) = "vmess" THEN MSG_VMESS_ID
    ELSE MSG_PASSWORD

\* What an iteration gives: the result it appends and the requests it sent.
Outcome(inbound_name, status, action, message, sent, ctype) ==
    [result |-> [inbound |-> inbound_name, status |-> status, action |-> action,
                 message |-> message],
     sent |-> sent, ctype |-> ctype]

\* The inbound handle_update_client hands to update_inbound: the fetched
\* inbound whose parsed settings have the client at m updated.
UpdateSubmission(inbound_details, settings, clients, m, new_password) ==
    [inbound_details EXCEPT
       !.settings = Dict(DictSet(settings, "clients",
                           [clients EXCEPT
                              ![m] = WithSecret(clients[m], inbound_details.protocol,
                                                new_password)]))]

\* The end of the body without its test of the response.
UpdateAfterUpdateUnchecked(d, r, inbound_name, new_password) ==
    Outcome(inbound_name, "Success", "Updated",
            UpdatedMessage(d.inbound.protocol, new_password),
            d.sent \o r.sent, r.ctype)

\* The end of the body: r is what update_inbound gave.
UpdateAfterUpdate(d, r, inbound_name, new_password) ==
    IF r.ret.isNone \/ (r.ret.hasSuccess /\ ~r.ret.success)
    THEN Outcome(inbound_name, "Failed", "Updated", MSG_NO_RESPONSE,
                 d.sent \o r.sent, r.ctype)
    ELSE Outcome(inbound_name, "Success", "Updated",
                 UpdatedMessage(d.inbound.protocol, new_password),
                 d.sent \o r.sent, r.ctype)

\* The body without its `if not client_found` branch: it submits the inbound
\* also when the scan found no client.
UpdateAfterScanAlwaysSubmits(logged_in, d, settings, clients, m, inbound_name, new_password, k2, pnl) ==
    UpdateAfterUpdate(d,
        UpdateInbound(logged_in,
            IF m = 0 THEN [d.inbound EXCEPT !.settings = Dict(settings)]
            ELSE UpdateSubmission(d.inbound, settings, clients, m, new_password),
            k2, pnl, d.ctype),
        inbound_name, new_password)

\* The body once the scan stopped at client m of clients (0: none found).
UpdateAfterScan(logged_in, d, settings, clients, m, inbound_name, new_password, k2, pnl) ==
    IF m = 0
    THEN Outcome(inbound_name, "Failed", "N/A", MSG_NOT_FOUND, d.sent, d.ctype)
    ELSE UpdateAfterUpdate(d,
           UpdateInbound(logged_in,
               UpdateSubmission(d.inbound, settings, clients, m, new_password),
               k2, pnl, d.ctype),
           inbound_name, new_password)

\* The body once the settings are parsed.
UpdateAfterParse(logged_in, d, parsed, inbound_name, client_identifier, new_password, k2, pnl) ==
    IF ~parsed.ok
    THEN Outcome(inbound_name, "Failed", "N/A", MSG_JSON, d.sent, d.ctype)
    ELSE UpdateAfterScan(logged_in, d, parsed.val, DictGet(parsed.val, "clients", <<>>),
                         FirstMatch(DictGet(parsed.val, "clients", <<>>),
                                    client_identifier),
                         inbound_name, new_password, k2, pnl)

\* The body without its test of the protocol.
UpdateAfterFetchAnyProtocol(logged_in, d, inbound_name, client_identifier, new_password, k2, pnl) ==
    IF ~d.found
    THEN Outcome(inbound_name, "Failed", "N/A", MSG_FETCH, d.sent, d.ctype)
    ELSE UpdateAfterParse(logged_in, d, JsonLoads(d.inbound.settings.v), inbound_name,
                          client_identifier, new_password, k2, pnl)

\* The body once get_inbound_details gave d.
UpdateAfterFetch(logged_in, d, inbound_name, client_identifier, new_password, k2, pnl) ==
    IF ~d.found
    THEN Outcome(inbound_name, "Failed", "N/A", MSG_FETCH, d.sent, d.ctype)
    ELSE IF Lower(d.inbound.protocol) \notin SupportedProtocols
    THEN Outcome(inbound_name, "Failed", "N/A", MSG_PROTOCOL, d.sent, d.ctype)
    ELSE UpdateAfterParse(logged_in, d, JsonLoads(d.inbound.settings.v), inbound_name,
                          client_identifier, new_password, k2, pnl)

\* One iteration of the loop of handle_update_client: the result it appends
\* and the requests it sends.
UpdateClientBody(logged_in, inbound_id, inbound_name, client_identifier, new_password, k1, k2, pnl, ctype) ==
    UpdateAfterFetch(logged_in,
                     GetInboundDetails(logged_in, inbound_id, k1, pnl, ctype),
                     inbound_name, client_identifier, new_password, k2, pnl)

AddResult(a, inbound_name) ==
    IF a.ret = "True"
    THEN Outcome(inbound_name, "Success", "Added", "Client successfully added.",
                 a.sent, a.ctype)
    ELSE IF a.ret = "False"
    THEN Outcome(inbound_name, "Failed", "Not Added", "Failed to add client.",
                 a.sent, a.ctype)
    ELSE Outcome(inbound_name, "Failed", "N/A", MSG_JSON, a.sent, a.ctype)

\* One iteration of the loop of handle_add_client.
AddClientBody(logged_in, inbound_id, inbound_name, client_email, client_password, k1, k2, u1, u2, pnl, ctype) ==
    AddResult(AddClientToInbound(logged_in, inbound_id, client_email,
                                 client_password, k1, k2, u1, u2, pnl, ctype),
              inbound_name)

--------------------------------------------------------------------------
(* The program state *)

VARIABLES
    login_status,          \* XUIAPI.login_status
    content_type,          \* session.headers['Content-Type']
    panel,                 \* the inbounds the panel stores
    pc,                    \* where the program is
    selected_inbound_ids,  \* the handlers' locals ...
    all_inbounds,
    client_identifier,
    new_password,
    client_email,
    client_password,
    i,                     \* index in selected_inbound_ids of the next inbound
    results,
    processed,             \* the inbound ids the loop body has run for
    reqs,                  \* the HTTP requests of the last call or iteration
    last                   \* the last call or iteration and what it returned

vars == <<login_status, content_type, panel, pc, selected_inbound_ids, all_inbounds,
          client_identifier, new_password, client_email, client_password, i,
          results, processed, reqs, last>>

session == <<login_status, content_type>>
locals == <<selected_inbound_ids, all_inbounds, client_identifier, new_password,
            client_email, client_password, i, results, processed>>

Called(op, ret, id) == [op |-> op, ret |-> ret, id |-> id, arg |-> None, out |-> None]

NoLocals ==
    /\ selected_inbound_ids' = <<>>
    /\ all_inbounds' = <<>>
    /\ client_identifier' = ""
    /\ new_password' = ""
    /\ client_email' = ""
    /\ client_password' = ""
    /\ i' = 0
    /\ results' = <<>>
    /\ processed' = <<>>

\* XUIAPI.__init__, before main() calls login().
Init ==
    /\ login_status = FALSE
    /\ content_type = FORM
    /\ panel \in InitPanels
    /\ pc = "start"
    /\ selected_inbound_ids = <<>>
    /\ all_inbounds = <<>>
    /\ client_identifier = ""
    /\ new_password = ""
    /\ client_email = ""
    /\ client_password = ""
    /\ i = 0
    /\ results = <<>>
    /\ processed = <<>>
    /\ reqs = <<>>
    /\ last = Called("init", "None", 0)

--------------------------------------------------------------------------
(* main() *)

\* The session and the log after a call that gave r.
Record(r, op, ret, id) ==
    /\ content_type' = r.ctype
    /\ reqs' = r.sent
    /\ last' = Called(op, ret, id)

\* The session and the log after login() gave r; arg keeps the flag as it
\* was before the call.
LoginRecord(r) ==
    /\ login_status' = r.login_status
    /\ content_type' = r.ctype
    /\ reqs' = r.sent
    /\ last' = [op |-> "login", ret |-> IF r.ret THEN "True" ELSE "False", id |-> 0,
                arg |-> [login_status |-> login_status], out |-> None]

\* main() going on to the menu after a failed login.
MainLoginGoesOn(r) ==
    /\ LoginRecord(r)
    /\ pc' = "menu"

MainLoginWith(r) ==
    /\ LoginRecord(r)
    /\ pc' = IF r.ret THEN "menu" ELSE "exit1"

\* Step 2 of main: login, and sys.exit(1) when it fails.
MainLogin ==
    /\ pc = "start"
    /\ \E k \in RespKinds : MainLoginWith(Login(k, panel, content_type))
    /\ UNCHANGED <<panel, locals>>

\* Choice 0 of the menu.
Exit ==
    /\ pc = "menu"
    /\ pc' = "exit0"
    /\ UNCHANGED <<session, panel, locals, reqs, last>>

\* A handler or a call returns to the menu loop; its locals are gone.
Return ==
    /\ pc \in {"returned", "summary"}
    /\ pc' = "menu"
    /\ NoLocals
    /\ reqs' = <<>>
    /\ last' = Called("none", "None", 0)
    /\ UNCHANGED <<session, panel>>

--------------------------------------------------------------------------
(* get_inbound_selection *)

\* What the user may answer to the selection prompt.
Selections(inbounds) ==
    {[kind |-> "all", idx |-> <<>>], [kind |-> "invalid", idx |-> <<>>]}
    \cup {[kind |-> "list", idx |-> s] :
            s \in UNION {[1..n -> 1..(Len(inbounds) + 1)] : n \in 1..MaxSel}}

\* The ids of the indices in range, in the order typed.
RECURSIVE IdsOf(_, _)
IdsOf(indices, inbounds) ==
    IF indices = <<>> THEN <<>>
    ELSE (IF 1 <= Head(indices) /\ Head(indices) <= Len(inbounds)
          THEN <<inbounds[Head(indices)].id>> ELSE <<>>)
         \o IdsOf(Tail(indices), inbounds)

\* The ids get_inbound_selection collects for an answer.
SelectedIds(sel, inbounds) ==
    IF sel.kind = "all" THEN [n \in 1..Len(inbounds) |-> inbounds[n].id]
    ELSE IF sel.kind = "list" THEN IdsOf(sel.idx, inbounds)
    ELSE <<>>

\* get_inbound_selection returns None for this answer.
NoSelection(sel, inbounds) ==
    sel.kind = "invalid" \/ SelectedIds(sel, inbounds) = <<>>

\* next((inb['remark'] for inb in all_inbounds if inb['id'] == inbound_id), ...)
InboundName(inbounds, inbound_id) ==
    IF WithId(inbounds, inbound_id) = {} THEN "ID"
    ELSE inbounds[Least(WithId(inbounds, inbound_id))].remark

\* The handler returns before its loop.
EarlyReturn(handler) ==
    /\ pc' = "returned"
    /\ last' = Called(handler, "None", 0)
    /\ NoLocals

\* The loop starts.
StartLoop(at, ids, inbounds) ==
    /\ pc' = at
    /\ last' = Called("get_inbound_selection", "ids", 0)
    /\ selected_inbound_ids' = ids
    /\ all_inbounds' = inbounds
    /\ i' = 1
    /\ results' = <<>>
    /\ processed' = <<>>

\* A loop that ends at the first failed inbound.
EndIterationStopsOnFailure(b, op, inbound_id, k2) ==
    /\ results' = Append(results, b.result)
    /\ processed' = Append(processed, inbound_id)
    /\ Record(b, op, b.result.status, inbound_id)
    /\ panel' = PanelAfter(panel, b.sent, k2)
    /\ i' = IF b.result.status = "Failed" THEN Len(selected_inbound_ids) + 1
            ELSE i + 1

\* The end of an iteration: results.append, and the panel has answered the
\* requests of the iteration.
EndIteration(b, op, inbound_id, k2) ==
    /\ results' = Append(results, b.result)
    /\ processed' = Append(processed, inbound_id)
    /\ Record(b, op, b.result.status, inbound_id)
    /\ panel' = PanelAfter(panel, b.sent, k2)
    /\ i' = i + 1

\* The loop is over: display_summary_table(results, ...).
Summary(at) ==
    /\ pc = at
    /\ i > Len(selected_inbound_ids)
    /\ pc' = "summary"
    /\ reqs' = <<>>
    /\ last' = Called("display_summary_table", "None", 0)
    /\ UNCHANGED <<session, panel, locals>>

--------------------------------------------------------------------------
(* handle_update_client *)

HandleUpdateWith(g) ==
    /\ content_type' = g.ctype
    /\ reqs' = g.sent
    /\ \/ /\ ~Listed(g.ret)
          /\ EarlyReturn("handle_update_client")
       \/ /\ Listed(g.ret)
          /\ \E sel \in Selections(g.ret.obj), ident \in Identifiers, pw \in Secrets :
               IF NoSelection(sel, g.ret.obj) \/ ident = ""
               THEN EarlyReturn("handle_update_client")
               ELSE /\ StartLoop("update", SelectedIds(sel, g.ret.obj), g.ret.obj)
                    /\ client_identifier' = ident
                    /\ new_password' = pw
                    /\ UNCHANGED <<client_email, client_password>>

\* Choice 1 of the menu, up to the start of the loop: the selection and the
\* two prompts.  The handler returns at once when the selection is None or
\* the identifier is empty.
HandleUpdateStart ==
    /\ pc = "menu"
    /\ \E k \in RespKinds :
         HandleUpdateWith(GetInbounds(login_status, k, panel, content_type))
    /\ UNCHANGED <<login_status, panel>>

\* One iteration of the loop: the body for selected_inbound_ids[i], then
\* results.append.
UpdateStep ==
    /\ pc = "update"
    /\ i <= Len(selected_inbound_ids)
    /\ \E k1 \in RespKinds :
       \E k2 \in SecondAnswers(UpdateClientBody(login_status, selected_inbound_ids[i],
                                   "", client_identifier, new_password, k1, "ok",
                                   panel, content_type).sent) :
         EndIteration(UpdateClientBody(login_status, selected_inbound_ids[i],
                          InboundName(all_inbounds, selected_inbound_ids[i]),
                          client_identifier, new_password, k1, k2, panel,
                          content_type),
                      "update_client", selected_inbound_ids[i], k2)
    /\ UNCHANGED <<login_status, pc, selected_inbound_ids, all_inbounds,
                   client_identifier, new_password, client_email, client_password>>

UpdateSummary == Summary("update")

--------------------------------------------------------------------------
(* handle_add_client *)

HandleAddWith(g) ==
    /\ content_type' = g.ctype
    /\ reqs' = g.sent
    /\ \/ /\ ~Listed(g.ret)
          /\ EarlyReturn("handle_add_client")
       \/ /\ Listed(g.ret)
          /\ \E sel \in Selections(g.ret.obj), email \in Emails, pw \in Secrets :
               IF NoSelection(sel, g.ret.obj) \/ email = ""
               THEN EarlyReturn("handle_add_client")
               ELSE /\ StartLoop("add", SelectedIds(sel, g.ret.obj), g.ret.obj)
                    /\ client_email' = email
                    /\ client_password' = pw
                    /\ UNCHANGED <<client_identifier, new_password>>

\* Choice 2 of the menu, up to the start of the loop.
HandleAddStart ==
    /\ pc = "menu"
    /\ \E k \in RespKinds :
         HandleAddWith(GetInbounds(login_status, k, panel, content_type))
    /\ UNCHANGED <<login_status, panel>>

\* One iteration of the loop: add_client_to_inbound for
\* selected_inbound_ids[i], then results.append.
AddStep ==
    /\ pc = "add"
    /\ i <= Len(selected_inbound_ids)
    /\ \E k1 \in RespKinds, u1 \in FirstUuids, u2 \in SecondUuids :
       \E k2 \in SecondAnswers(AddClientBody(login_status, selected_inbound_ids[i],
                                   "", client_email, client_password, k1, "ok",
                                   u1, u2, panel, content_type).sent) :
         EndIteration(AddClientBody(login_status, selected_inbound_ids[i],
                          InboundName(all_inbounds, selected_inbound_ids[i]),
                          client_email, client_password, k1, k2, u1, u2, panel,
                          content_type),
                      "add_client", selected_inbound_ids[i], k2)
    /\ UNCHANGED <<login_status, pc, selected_inbound_ids, all_inbounds,
                   client_identifier, new_password, client_email, client_password>>

AddSummary == Summary("add")

--------------------------------------------------------------------------
(* The program *)

Next ==
    \/ MainLogin
    \/ HandleUpdateStart
    \/ UpdateStep
    \/ UpdateSummary
    \/ HandleAddStart
    \/ AddStep
    \/ AddSummary
    \/ Return
    \/ Exit

Spec == Init /\ [][Next]_vars

\* An iteration of the for loop of either handler, whatever its outcome: the
\* steps of the program that advance i are the steps of UpdateStep and of
\* AddStep, and one of them is possible whenever i is within the selection.
LoopStep ==
    /\ (pc = "update" \/ pc = "add")
    /\ i <= Len(selected_inbound_ids)
    /\ i' = i + 1

\* The program runs on: a loop that has started goes through its iterations
\* (every request returns within its timeout, and every exception of the body
\* is caught in it) and then displays its summary.
LiveSpec ==
    /\ Spec
    /\ WF_i(LoopStep)
    /\ WF_vars(UpdateSummary)
    /\ WF_vars(AddSummary)

--------------------------------------------------------------------------
(* The XUIAPI object and the handlers under a caller other than main(): any *)
(* method or handler, in any order, also before a login and after a failed  *)
(* one.  pc = "menu" is the caller between two calls.                       *)

ApiLoginWith(r) ==
    /\ LoginRecord(r)
    /\ pc' = "returned"

ApiLogin ==
    /\ pc = "menu"
    /\ \E k \in RespKinds : ApiLoginWith(Login(k, panel, content_type))
    /\ UNCHANGED <<panel, locals>>

ApiGetInboundsWith(r) ==
    Record(r, "get_inbounds", IF r.ret.isNone THEN "None" ELSE "value", 0)

ApiGetInbounds ==
    /\ pc = "menu"
    /\ \E k \in RespKinds :
         ApiGetInboundsWith(GetInbounds(login_status, k, panel, content_type))
    /\ pc' = "returned"
    /\ UNCHANGED <<login_status, panel, locals>>

ApiGetInboundDetailsWith(d, inbound_id) ==
    Record(d, "get_inbound_details", IF d.found THEN "value" ELSE "None", inbound_id)

ApiGetInboundDetails ==
    /\ pc = "menu"
    /\ \E k \in RespKinds, inbound_id \in 1..(Len(panel) + 1) :
         ApiGetInboundDetailsWith(
             GetInboundDetails(login_status, inbound_id, k, panel, content_type),
             inbound_id)
    /\ pc' = "returned"
    /\ UNCHANGED <<login_status, panel, locals>>

\* The inbound objects a caller may hand to update_inbound: an inbound as
\* listed, or with its settings parsed.
AsDict(inbound, parsed) ==
    IF parsed.ok THEN {[inbound EXCEPT !.settings = Dict(parsed.val)]} ELSE {}

Configs(pnl) ==
    UNION {{pnl[n]} \cup AsDict(pnl[n], JsonLoads(pnl[n].settings.v)) :
             n \in 1..Len(pnl)}

ApiUpdateInboundWith(r, inbound_config, k) ==
    /\ content_type' = r.ctype
    /\ reqs' = r.sent
    /\ last' = [op |-> "update_inbound",
                ret |-> IF r.ret.isNone THEN "None" ELSE "value",
                id |-> inbound_config.id, arg |-> inbound_config, out |-> r.config]
    /\ panel' = PanelAfter(panel, r.sent, k)

ApiUpdateInbound ==
    /\ pc = "menu"
    /\ \E k \in RespKinds, inbound_config \in Configs(panel) :
         ApiUpdateInboundWith(
             UpdateInbound(login_status, inbound_config, k, panel, content_type),
             inbound_config, k)
    /\ pc' = "returned"
    /\ UNCHANGED <<login_status, locals>>

ApiAddClientWith(a, inbound_id, k2) ==
    /\ Record(a, "add_client_to_inbound", a.ret, inbound_id)
    /\ panel' = PanelAfter(panel, a.sent, k2)

ApiAddClientToInbound ==
    /\ pc = "menu"
    /\ \E k1 \in RespKinds, inbound_id \in 1..(Len(panel) + 1),
          email \in Emails \ {""}, pw \in Secrets,
          u1 \in FirstUuids, u2 \in SecondUuids :
       \E k2 \in SecondAnswers(AddClientToInbound(login_status, inbound_id, email, pw,
                                   k1, "ok", u1, u2, panel, content_type).sent) :
         ApiAddClientWith(
             AddClientToInbound(login_status, inbound_id, email, pw, k1, k2, u1, u2,
                                panel, content_type),
             inbound_id, k2)
    /\ pc' = "returned"
    /\ UNCHANGED <<login_status, locals>>

\* The HTTP methods a caller may hand to _request.
Methods == {"GET", "POST", "PUT"}

\* The payloads of a direct call: json_data, data, or neither.
Payloads == {"json", "form", "none"}

ApiRequestWith(r, method, endpoint, payload, k) ==
    /\ content_type' = r.ctype
    /\ reqs' = r.sent
    /\ last' = [op |-> "_request", ret |-> IF r.ret.isNone THEN "None" ELSE "value",
                id |-> 0,
                arg |-> [method |-> method, endpoint |-> endpoint,
                         payload |-> payload, k |-> k,
                         content_type |-> content_type],
                out |-> r.ret]

\* _request called directly, with any method and payload.
ApiRequest ==
    /\ pc = "menu"
    /\ \E method \in Methods, endpoint \in {LOGIN_ENDPOINT, LIST_ENDPOINT},
          payload \in Payloads, k \in RespKinds :
         ApiRequestWith(Request(method, endpoint,
                                IF payload = "json" THEN Credentials ELSE None,
                                IF payload = "form" THEN Credentials ELSE None,
                                k, panel, content_type),
                        method, endpoint, payload, k)
    /\ pc' = "returned"
    /\ UNCHANGED <<login_status, panel, locals>>

InitApi ==
    /\ login_status = FALSE
    /\ content_type = FORM
    /\ panel \in InitPanels
    /\ pc = "menu"
    /\ selected_inbound_ids = <<>>
    /\ all_inbounds = <<>>
    /\ client_identifier = ""
    /\ new_password = ""
    /\ client_email = ""
    /\ client_password = ""
    /\ i = 0
    /\ results = <<>>
    /\ processed = <<>>
    /\ reqs = <<>>
    /\ last = Called("init", "None", 0)

NextApi ==
    \/ ApiLogin
    \/ ApiRequest
    \/ ApiGetInbounds
    \/ ApiGetInboundDetails
    \/ ApiUpdateInbound
    \/ ApiAddClientToInbound
    \/ HandleUpdateStart
    \/ UpdateStep
    \/ UpdateSummary
    \/ HandleAddStart
    \/ AddStep
    \/ AddSummary
    \/ Return

ApiSpec == InitApi /\ [][NextApi]_vars

--------------------------------------------------------------------------
(* Claims *)

\* The endpoint the specification names for adding a client; the program
\* never names it.
ADD_CLIENT_ENDPOINT == "panel/api/inbounds/addClient"

\* The requests of sent that change the panel: the POSTs to the update and
\* to the add-client endpoint.
Mutations(sent) ==
    {n \in 1..Len(sent) : /\ sent[n].method = "POST"
                          /\ sent[n].endpoint \in {UPDATE_ENDPOINT,
                                                   ADD_CLIENT_ENDPOINT}}

\* The inbound of the panel with the id.
Stored(inbound_id) == panel[Least(WithId(panel, inbound_id))]

GuardedCalls ==
    {"get_inbounds", "get_inbound_details", "update_inbound",
     "add_client_to_inbound", "handle_update_client", "handle_add_client"}

\* C1: while login_status is false, get_inbounds, get_inbound_details,
\* update_inbound, add_client_to_inbound and the update-client flow (the
\* handler, and the body of its loop for any inbound) fail and send no HTTP
\* request.
C1_UnauthenticatedSendsNothing ==
    ~login_status =>
        /\ last.op \in GuardedCalls => (reqs = <<>> /\ last.ret \in {"None", "False"})
        /\ \A inbound_id \in 1..Len(panel), ident \in Identifiers \ {""},
              pw \in Secrets, k1 \in RespKinds, k2 \in RespKinds :
             /\ UpdateClientBody(login_status, inbound_id, "", ident, pw, k1, k2,
                                 panel, content_type).sent = <<>>
             /\ UpdateClientBody(login_status, inbound_id, "", ident, pw, k1, k2,
                                 panel, content_type).result.status = "Failed"

C1_Witness ==
    /\ ~login_status
    /\ last.op = "add_client_to_inbound"
    /\ last.ret = "False"
    /\ reqs = <<>>

\* C2 as claimed: once login_status is true it is never false again,
\* whatever is called next, a failing login() included.
C2_NeverFalseAgain == [][login_status => login_status']_vars

\* C2 as amended: login_status starts false and changes only in login(),
\* which sets it to true when it succeeds and to false when it fails.
C2_OnlyLoginSetsTheFlag ==
    /\ ~login_status
    /\ [][login_status' # login_status =>
            /\ last'.op = "login"
            /\ login_status' = (last'.ret = "True")]_vars

\* A failed login() on a session that was logged in.
C2_Witness ==
    /\ last.op = "login"
    /\ last.ret = "False"
    /\ last.arg.login_status
    /\ ~login_status

\* C3: a login that does not get a JSON body with success true (success
\* false or absent, or a failure of the transport or of HTTP) returns failure
\* and leaves the flag false, and main() then exits having sent the login
\* request only: no step follows the exit.
C3_LoginFailureEndsTheRun ==
    /\ [](/\ pc = "start" =>
               \A k \in RespKinds \ {"ok", "ok_no_obj"} :
                  /\ ~Login(k, panel, content_type).ret
                  /\ ~Login(k, panel, content_type).login_status
          /\ (last.op = "login" /\ last.ret = "False") =>
                 /\ pc = "exit1"
                 /\ ~login_status
                 /\ Len(reqs) = 1
                 /\ reqs[1].endpoint = LOGIN_ENDPOINT
          /\ pc = "exit1" => (last.op = "login" /\ last.ret = "False"))
    /\ [][pc # "exit1"]_vars

C3_Witness ==
    /\ pc = "exit1"
    /\ ~login_status
    /\ Len(reqs) = 1

\* The spellings of the protocols the program manages.
ManagedSpellings == {"vless", "vmess", "trojan", "VLESS", "VMess", "VMESS",
                     "Trojan", "TROJAN"}

\* The clients of a settings text.
ClientsOf(toks) == DictGet(JsonLoads(toks).val, "clients", <<>>)

\* No client of the settings text has the identifier as its id or email.
NoClientHas(toks, ident) ==
    /\ JsonLoads(toks).ok
    /\ \A n \in 1..Len(ClientsOf(toks)) :
         /\ DictGet(ClientsOf(toks)[n], "id", NoneAtom) # ident
         /\ DictGet(ClientsOf(toks)[n], "email", NoneAtom) # ident

\* A client of the settings text has the email.
HasEmail(toks, email) ==
    /\ JsonLoads(toks).ok
    /\ \E n \in 1..Len(ClientsOf(toks)) :
         DictGet(ClientsOf(toks)[n], "email", NoneAtom) = email

\* An iteration of a loop is about to run, and has run.
AtIteration(at) == pc = at /\ i <= Len(selected_inbound_ids)
Iterated(at) == AtIteration(at) /\ i' = i + 1

C5_Case ==
    /\ AtIteration("update")
    /\ Stored(selected_inbound_ids[i]).protocol \in ManagedSpellings
    /\ NoClientHas(Stored(selected_inbound_ids[i]).settings.v, client_identifier)

\* C5: in the update loop, when no client of the fetched inbound has the
\* identifier as id or email, the result is 'not found' (status Failed), no
\* POST goes to the update endpoint and the panel is unchanged; the only
\* other result is that the inbound could not be fetched.
C5_NotFoundSendsNoUpdate ==
    /\ [](C5_Case =>
            \A k2 \in RespKinds :
               /\ UpdateClientBody(login_status, selected_inbound_ids[i], "",
                                   client_identifier, new_password, "ok", k2, panel,
                                   content_type).result.message = MSG_NOT_FOUND
               /\ Mutations(UpdateClientBody(login_status, selected_inbound_ids[i],
                                   "", client_identifier, new_password, "ok", k2,
                                   panel, content_type).sent) = {})
    /\ [][(C5_Case /\ Iterated("update")) =>
            /\ last'.ret = "Failed"
            /\ results'[i].status = "Failed"
            /\ results'[i].message \in {MSG_NOT_FOUND, MSG_FETCH}
            /\ Mutations(reqs') = {}
            /\ panel' = panel]_vars

C5_Witness ==
    /\ pc = "update"
    /\ last.op = "update_client"
    /\ results[Len(results)].message = MSG_NOT_FOUND
    /\ Stored(last.id).protocol \in ManagedSpellings
    /\ NoClientHas(Stored(last.id).settings.v, client_identifier)
    /\ Len(reqs) = 1

\* C6: add_client_to_inbound for an email that a client of the fetched
\* inbound has returns failure and sends no POST, and the panel is unchanged;
\* after a successful add the panel holds the email, so that adding it to the
\* same inbound again fails without a POST whatever the panel answers.
C6_DuplicateLabelFails ==
    /\ []((last.op = "add_client" /\ last.ret = "Success") =>
            /\ HasEmail(Stored(last.id).settings.v, client_email)
            /\ \A k1 \in RespKinds, k2 \in RespKinds, pw \in Secrets :
                 /\ AddClientToInbound(login_status, last.id, client_email, pw, k1,
                                       k2, "g1", "g2", panel, content_type).ret
                        = "False"
                 /\ Mutations(AddClientToInbound(login_status, last.id, client_email,
                                       pw, k1, k2, "g1", "g2", panel,
                                       content_type).sent) = {})
    /\ [][(/\ Iterated("add")
           /\ HasEmail(Stored(selected_inbound_ids[i]).settings.v, client_email)) =>
            /\ last'.ret = "Failed"
            /\ Mutations(reqs') = {}
            /\ panel' = panel]_vars

\* The same inbound selected twice: the first add succeeded, the second was
\* refused after its list GET.
C6_Witness ==
    /\ pc = "add"
    /\ Len(results) = 2
    /\ processed[1] = processed[2]
    /\ results[1].status = "Success"
    /\ results[2].status = "Failed"
    /\ Len(reqs) = 1
    /\ Mutations(reqs) = {}

\* C7: when add_client_to_inbound submits, the request goes to the add-client
\* endpoint and the settings it carries hold one client only, the new one,
\* and none of the clients the inbound had.
C7_AddUsesAddClientEndpoint ==
    (last.op = "add_client" /\ Len(reqs) = 2) =>
        /\ reqs[2].method = "POST"
        /\ reqs[2].endpoint = ADD_CLIENT_ENDPOINT
        /\ Len(ClientsOf(reqs[2].body.settings.v)) = 1
        /\ DictGet(ClientsOf(reqs[2].body.settings.v)[1], "email", NoneAtom)
             = client_email

\* C8 as claimed: the payload update_inbound submits to the update endpoint
\* has the fields id and settings only, settings being a JSON text, and the
\* caller's inbound object is as it was.
C8_PayloadIsIdAndSettings ==
    (last.op = "update_inbound" /\ reqs # <<>>) =>
        /\ reqs[1].endpoint = UPDATE_ENDPOINT
        /\ DOMAIN reqs[1].body = {"id", "settings"}
        /\ reqs[1].body.settings.t = "str"
        /\ last.out = last.arg

\* C8 as amended: update_inbound, when logged in, sends one JSON POST to the
\* update endpoint whose payload has every field of the caller's inbound, each
\* with the caller's value but settings, which is a JSON text: the caller's
\* text unchanged, or the serialization of the caller's dict (parsing it gives
\* the dict back); the caller's inbound object is as it was.
C8_PayloadIsWholeInbound ==
    last.op = "update_inbound" =>
        /\ last.out = last.arg
        /\ login_status => Len(reqs) = 1
        /\ reqs # <<>> =>
             /\ Len(reqs) = 1
             /\ reqs[1].method = "POST"
             /\ reqs[1].endpoint = UPDATE_ENDPOINT
             /\ reqs[1].content_type = JSON
             /\ DOMAIN reqs[1].body = DOMAIN last.arg
             /\ \A f \in DOMAIN last.arg \ {"settings"} :
                  reqs[1].body[f] = last.arg[f]
             /\ reqs[1].body.settings.t = "str"
             /\ last.arg.settings.t = "str" =>
                  reqs[1].body.settings = last.arg.settings
             /\ last.arg.settings.t = "dict" =>
                  JsonLoads(reqs[1].body.settings.v)
                    = [ok |-> TRUE, val |-> last.arg.settings.v]

\* update_inbound submitted an inbound whose settings the caller had parsed.
C8_Witness ==
    /\ last.op = "update_inbound"
    /\ last.arg.settings.t = "dict"
    /\ last.arg.protocol = "VMess"
    /\ Len(reqs) = 1
    /\ reqs[1].body.settings.t = "str"

\* The field that holds the secret of a client of the protocol.
SecretField(protocol) ==
    IF protocol \in {"trojan", "Trojan", "TROJAN"} THEN "password" ELSE "id"

Keys(d) == {d[n][1] : n \in 1..Len(d)}

\* new is old but for the field, which holds the secret.
SameButSecret(old, new, field, secret) ==
    /\ Keys(new) = Keys(old) \cup {field}
    /\ Len(new) = Cardinality(Keys(new))
    /\ DictGet(new, field, NoneAtom) = secret
    /\ \A k \in Keys(old) \ {field} :
         DictGet(new, k, NoneAtom) = DictGet(old, k, NoneAtom)

\* The clients with the identifier as id or email.
Hits(clients, ident) ==
    {n \in 1..Len(clients) : \/ DictGet(clients[n], "id", NoneAtom) = ident
                             \/ DictGet(clients[n], "email", NoneAtom) = ident}

\* The submitted settings text is the fetched one but for the secret of the
\* first client with the identifier.
SubmittedAsFetchedButSecret(fetched, submitted, protocol, ident, secret) ==
    LET old == JsonLoads(fetched).val
        new == JsonLoads(submitted).val
        oc  == DictGet(old, "clients", <<>>)
        nc  == DictGet(new, "clients", <<>>)
    IN  /\ JsonLoads(submitted).ok
        /\ Hits(oc, ident) # {}
        /\ Len(new) = Len(old)
        /\ \A n \in 1..Len(old) :
             /\ new[n][1] = old[n][1]
             /\ old[n][1] # "clients" => new[n] = old[n]
        /\ Len(nc) = Len(oc)
        /\ \A n \in 1..Len(oc) :
             IF n = Least(Hits(oc, ident))
             THEN SameButSecret(oc[n], nc[n], SecretField(protocol), secret)
             ELSE nc[n] = oc[n]

\* C9: an iteration of the update loop with a non-empty new secret that
\* submits a trojan or vmess inbound submits the settings it fetched but for
\* the first client with the identifier, whose password (trojan) or id (vmess)
\* holds the new secret, every other field of it being as fetched.
C9_NewSecretInItsField ==
    [][(/\ Iterated("update")
        /\ new_password # ""
        /\ Len(reqs') = 2
        /\ Lower(Stored(selected_inbound_ids[i]).protocol) \in {"trojan", "vmess"}) =>
          /\ reqs'[2].endpoint = UPDATE_ENDPOINT
          /\ reqs'[2].body.settings.t = "str"
          /\ SubmittedAsFetchedButSecret(Stored(selected_inbound_ids[i]).settings.v,
                                         reqs'[2].body.settings.v,
                                         Stored(selected_inbound_ids[i]).protocol,
                                         client_identifier, new_password)]_vars

\* trojan {id:u1, email:a@x.com} updated by email with the secret s2.
C9_Witness ==
    /\ last.op = "update_client"
    /\ client_identifier = "a@x.com"
    /\ new_password = "s2"
    /\ Len(reqs) = 2
    /\ reqs[2].body.protocol = "trojan"
    /\ reqs[2].body.settings.v
         = <<"{", "clients", "[", "{", "id", "u1", "email", "a@x.com",
             "password", "s2", "}", "]", "}">>

\* C10: in the loop of a batch update or add, the inbounds processed are the
\* selected ones up to the current one, each once and in the selected order,
\* with one result each, whatever the status of the earlier results; the loop
\* leaves only for its summary, which it always reaches, with one result per
\* selected inbound.
C10_EveryInboundOnce ==
    /\ [](pc \in {"update", "add"} =>
            /\ i \in 1..(Len(selected_inbound_ids) + 1)
            /\ processed = SubSeq(selected_inbound_ids, 1, i - 1)
            /\ Len(results) = i - 1)
    /\ [](pc = "summary" =>
            /\ processed = selected_inbound_ids
            /\ Len(results) = Len(selected_inbound_ids)
            /\ \A n \in 1..Len(results) :
                 /\ results[n].inbound
                      = InboundName(all_inbounds, selected_inbound_ids[n])
                 /\ results[n].status \in {"Success", "Failed"})
    /\ [][(pc = "update" \/ pc = "add") => (pc' = pc \/ pc' = "summary")]_vars
    /\ (pc \in {"update", "add"}) ~> (pc = "summary")

\* A batch whose first inbound failed and whose second succeeded.
C10_Witness ==
    /\ pc = "summary"
    /\ Len(results) = 2
    /\ results[1].status = "Failed"
    /\ results[2].status = "Success"

\* The arguments of a direct call of _request with the payload.
JsonOf(payload) == IF payload = "json" THEN Credentials ELSE None
DataOf(payload) == IF payload = "form" THEN Credentials ELSE None

\* C11: a call of _request sends at most one HTTP request (none for an
\* unsupported method, one otherwise, whatever the answer: no retry); it
\* returns the parsed body exactly when the method is supported and the
\* answer is a JSON body with success true, and None for every other kind of
\* answer; the callers that make one call of it send at most one request.
C11_OneRequestNoneOnFailure ==
    /\ pc = "menu" =>
       \A method \in Methods, endpoint \in {LOGIN_ENDPOINT, LIST_ENDPOINT},
          payload \in Payloads, k \in RespKinds :
         LET r == Request(method, endpoint, JsonOf(payload), DataOf(payload), k,
                          panel, content_type)
             b == Body(k, endpoint, panel)
         IN  /\ Len(r.sent) = IF method \in {"POST", "GET"} THEN 1 ELSE 0
             /\ ~r.ret.isNone <=>
                  (method \in {"POST", "GET"} /\ b.hasSuccess /\ b.success)
             /\ k \in {"http_error", "conn_error", "timeout", "empty_body",
                       "bad_json", "api_fail", "no_success"} => r.ret = NoneResp
             /\ ~r.ret.isNone =>
                  (r.ret.hasSuccess /\ r.ret.success /\ r.ret.obj = b.obj)
    /\ last.op = "_request" =>
         /\ Len(reqs) <= 1
         /\ last.arg.method \notin {"POST", "GET"} =>
              (reqs = <<>> /\ last.ret = "None")
         /\ last.arg.method \in {"POST", "GET"} =>
              /\ Len(reqs) = 1
              /\ reqs[1].method = last.arg.method
              /\ reqs[1].endpoint = last.arg.endpoint
         /\ last.ret = "value" <=>
              (last.arg.method \in {"POST", "GET"}
               /\ last.arg.k \in {"ok", "ok_no_obj"})
         /\ last.ret = "None" <=> last.out = NoneResp
         /\ last.ret = "value" => (last.out.hasSuccess /\ last.out.success)
    /\ last.op \in {"login", "get_inbounds", "get_inbound_details",
                    "update_inbound"} => Len(reqs) <= 1

\* The transport succeeded and the body says success false: one request
\* sent, None returned.
C11_Witness ==
    /\ last.op = "_request"
    /\ last.arg.method = "POST"
    /\ last.arg.k = "api_fail"
    /\ Len(reqs) = 1
    /\ last.ret = "None"

\* C12: an iteration of the update loop that submits an inbound submits its
\* clients as fetched, in the same number and order, but for the first client
\* in list order whose id or email is the identifier: every other client,
\* the later ones that match the identifier included, is unchanged (and with
\* no new secret the first one is unchanged too).
C12_OnlyFirstMatchModified ==
    [][(Iterated("update") /\ Len(reqs') = 2) =>
          LET oc == ClientsOf(Stored(selected_inbound_ids[i]).settings.v)
              nc == ClientsOf(reqs'[2].body.settings.v)
          IN  /\ JsonLoads(reqs'[2].body.settings.v).ok
              /\ Hits(oc, client_identifier) # {}
              /\ Len(nc) = Len(oc)
              /\ \A n \in 1..Len(oc) :
                   n # Least(Hits(oc, client_identifier)) => nc[n] = oc[n]
              /\ new_password = "" => nc = oc]_vars

\* The identifier is the id of the second client and the email of the third
\* of a VMess inbound: the second got the new id, the first and the third
\* kept theirs.
C12_Witness ==
    /\ last.op = "update_client"
    /\ client_identifier = "u1"
    /\ new_password = "s2"
    /\ Len(reqs) = 2
    /\ Len(ClientsOf(reqs[2].body.settings.v)) = 3
    /\ DictGet(ClientsOf(reqs[2].body.settings.v)[1], "id", NoneAtom) = "x1"
    /\ DictGet(ClientsOf(reqs[2].body.settings.v)[2], "id", NoneAtom) = "s2"
    /\ DictGet(ClientsOf(reqs[2].body.settings.v)[3], "id", NoneAtom) = "x3"
    /\ DictGet(ClientsOf(reqs[2].body.settings.v)[3], "email", NoneAtom) = "u1"

\* The clients of the list that have an email have pairwise distinct ones.
DistinctEmails(clients) ==
    \A m, n \in 1..Len(clients) :
       (/\ m # n
        /\ HasKey(clients[m], "email")
        /\ HasKey(clients[n], "email")) =>
          DictGet(clients[m], "email", NoneAtom) # DictGet(clients[n], "email", NoneAtom)

\* C13: the panel starts with pairwise distinct emails in every inbound and,
\* storing what each successful update submits, keeps them pairwise distinct
\* after any sequence of adds and updates of this client; every settings
\* text the client submits has pairwise distinct emails as well.
C13_EmailsStayDistinct ==
    /\ \A n \in 1..Len(panel) :
         JsonLoads(panel[n].settings.v).ok =>
            DistinctEmails(ClientsOf(panel[n].settings.v))
    /\ \A n \in 1..Len(reqs) :
         (/\ reqs[n].method = "POST"
          /\ reqs[n].endpoint = UPDATE_ENDPOINT
          /\ last.op \in {"add_client", "add_client_to_inbound", "update_client"}) =>
            DistinctEmails(ClientsOf(reqs[n].body.settings.v))

\* A client that was added to an inbound holding another client, and then
\* updated: the panel stores both.
C13_Witness ==
    \E n \in 1..Len(panel) :
       /\ panel[n].protocol = "vless"
       /\ JsonLoads(panel[n].settings.v).ok
       /\ Len(ClientsOf(panel[n].settings.v)) = 2
       /\ DictGet(ClientsOf(panel[n].settings.v)[1], "email", NoneAtom) = "b@x.com"
       /\ DictGet(ClientsOf(panel[n].settings.v)[2], "email", NoneAtom) = "a@x.com"
       /\ DictGet(ClientsOf(panel[n].settings.v)[2], "password", NoneAtom) = "s2"
       /\ last.op = "update_client"

\* The inbound is managed, its settings parse and a client of it has the
\* identifier as id or email.
ClientMatches(inbound, ident) ==
    /\ inbound.protocol \in ManagedSpellings
    /\ JsonLoads(inbound.settings.v).ok
    /\ Hits(ClientsOf(inbound.settings.v), ident) # {}

\* The answer of kind k is a JSON body with success true.
SaysSuccess(k, endpoint) ==
    Body(k, endpoint, panel).hasSuccess /\ Body(k, endpoint, panel).success

\* C14: in the update loop the status recorded for an inbound is Success
\* exactly when the inbound was fetched, a client of it matched the
\* identifier and the update call got an answer with success true; a matched
\* client whose update fails or gets no response is recorded as Failed with
\* action Updated, and a client not found is recorded as Failed.
C14_SuccessIffMatchedAndUpdated ==
    /\ [](AtIteration("update") =>
            \A k1 \in RespKinds, k2 \in RespKinds :
               LET b == UpdateClientBody(login_status, selected_inbound_ids[i], "",
                                         client_identifier, new_password, k1, k2,
                                         panel, content_type)
                   matched == /\ k1 = "ok"
                              /\ ClientMatches(Stored(selected_inbound_ids[i]),
                                               client_identifier)
               IN  /\ b.result.status \in {"Success", "Failed"}
                   /\ b.result.status = "Success" <=>
                        (matched /\ SaysSuccess(k2, UPDATE_ENDPOINT))
                   /\ (matched /\ ~SaysSuccess(k2, UPDATE_ENDPOINT)) =>
                        /\ b.result.status = "Failed"
                        /\ b.result.action = "Updated"
                        /\ Len(b.sent) = 2
                   /\ ~matched =>
                        /\ b.result.status = "Failed"
                        /\ b.result.action = "N/A"
                        /\ Mutations(b.sent) = {})
    /\ [][Iterated("update") =>
            /\ results'[i].status = last'.ret
            /\ results'[i].status = "Success" =>
                 /\ ClientMatches(Stored(selected_inbound_ids[i]), client_identifier)
                 /\ Len(reqs') = 2
                 /\ panel'[Least(WithId(panel', selected_inbound_ids[i]))]
                      = reqs'[2].body
            /\ (results'[i].status = "Failed" \/ Len(reqs') < 2) => panel' = panel]_vars

\* A client matched and the update call failed: Failed, with action Updated.
C14_Witness ==
    /\ last.op = "update_client"
    /\ last.ret = "Failed"
    /\ Len(reqs) = 2
    /\ results[Len(results)].action = "Updated"
    /\ results[Len(results)].message = MSG_NO_RESPONSE

\* C15: the session's Content-Type header is the form type after every call
\* as it was at construction, no step changes it, and _request gives back the
\* header it found, whatever that was, on every way out: for every method,
\* payload and kind of answer, and for every except clause.
C15_ContentTypeRestored ==
    /\ [](content_type = FORM)
    /\ [](pc = "menu" =>
            \A method \in Methods, payload \in Payloads, k \in RespKinds,
               h \in {FORM, JSON} :
               /\ Request(method, LIST_ENDPOINT, JsonOf(payload), DataOf(payload),
                          k, panel, h).ctype = h
               /\ \A path \in ExitPaths :
                    HeaderAfter(path, HeaderDuring(method, JsonOf(payload), h), h)
                      = h)
    /\ [][content_type' = content_type]_vars

\* A JSON POST that timed out: the request carried the JSON type and the
\* session has the form type again.
C15_Witness ==
    /\ last.op = "_request"
    /\ last.arg.method = "POST"
    /\ last.arg.payload = "json"
    /\ last.arg.k = "timeout"
    /\ last.arg.content_type = FORM
    /\ reqs[1].content_type = JSON
    /\ content_type = FORM

====
